---------------------------- MODULE Spec2Model ----------------------------
(***************************************************************************)
(* Model of pyarubaimc/objects.py: the three accessor objects IMCDev,      *)
(* IMCInterface and IPScope over the IMC RESTful API.                      *)
(*                                                                         *)
(* The IMC server is modelled as remote state (the r* variables).  The     *)
(* endpoint functions the objects call (pyarubaimc.plat) are modelled      *)
(* from their documented request/response contract.  External actors are   *)
(* other clients of the same server.                                       *)
(*                                                                         *)
(* An IPv4 address string is a sequence of four decimal digit strings      *)
(* ("10.0.0.1" is << <<1,0>>, <<0>>, <<0>>, <<1>> >>); a parsed address is *)
(* its 32-bit integer.                                                     *)
(***************************************************************************)
EXTENDS Integers, Sequences, FiniteSets, TLC

VARIABLES rscope,    \* IMC server: the scope's detail record (id, startIp,
                     \* endIp, assignedIpScope)
    rhosts,         \* host records allocated in the scope
    \* ---- IPScope object
    id, netaddr, startip, endip, hosts, child,
    pool,           \* the host addresses callers pass in
    last_op,        \* the method of the IPScope object called last
    ret,            \* what that call returned
    outcome,        \* how that call ended: "ok" or the error raised
    last_request,   \* the endpoint function the object called last
    acked,          \* records allocate_ip got accepted, not deallocated since
    nwrites,        \* number of write requests made to the server
    \* ---- IMC server: managed device
    rvlans,         \* VLANs of the managed device
    \* ---- IMCDev object and its construction
    dev_pc,         \* position in IMCDev.__init__
    dev_attrs,      \* names of the attributes assigned so far
    dev_ip,         \* the ip_address argument of the constructor
    vlans,          \* IMCDev.vlans
    dev_ref,        \* TRUE when the caller holds the constructed object
    dev_error,      \* the error the constructor raised
    vadded,         \* VLANs addvlan got accepted, not deleted since
    dev_writes,     \* number of VLAN write requests made to the server
    \* ---- IMC server: interfaces
    radmin,         \* ifIndex -> adminStatusDesc
    \* ---- IMCInterface object
    if_pc,          \* position in down()/up()
    ifIndex, adminstatus,
    if_set,         \* the state the running or last call of down()/up() set
    if_ext,         \* an external change fell between the call's two steps
    if_done         \* a call of down()/up() has returned

scope_vars == << rscope, rhosts, id, netaddr, startip, endip, hosts, child,
                 pool, last_op, ret, outcome, last_request, acked,
                 nwrites >>
dev_vars   == << rvlans, dev_pc, dev_attrs, dev_ip, vlans, dev_ref, dev_error,
                 vadded, dev_writes >>
if_vars    == << radmin, if_pc, ifIndex, adminstatus, if_set, if_ext, if_done >>
vars       == << scope_vars, dev_vars, if_vars >>

---------------------------------------------------------------------------
\* Bounds

\* write requests made to the server in one behaviour
MaxWrites == 3

\* Python's None, and the value of an attribute never assigned
None == << >>

---------------------------------------------------------------------------
\* ipaddress: parsing and formatting

RECURSIVE decimal(_)
\* str(int)
decimal(n) == IF n < 10 THEN << n >> ELSE Append(decimal(n \div 10), n % 10)

RECURSIVE digits_value(_, _)
\* the number the first k digits of s write
digits_value(s, k) == IF k = 0 THEN 0 ELSE 10 * digits_value(s, k - 1) + s[k]

\* int(str)
int(s) == digits_value(s, Len(s))

\* str(ip).split('.')
str_split(ip) ==
    << decimal(ip \div 16777216), decimal((ip \div 65536) % 256),
       decimal((ip \div 256) % 256), decimal(ip % 256) >>

\* ipaddress.ip_address(s) for a dotted quad s
ip_address(s) ==
    ((int(s[1]) * 256 + int(s[2])) * 256 + int(s[3])) * 256 + int(s[4])

\* ipaddress.ip_network("a.b.c.d/p"): strict, the host bits are zero
ip_network(n) ==
    [network_address |-> ip_address(n.addr), prefixlen |-> n.prefixlen]

num_addresses(net) == 2 ^ (32 - net.prefixlen)

broadcast_address(net) == net.network_address + num_addresses(net) - 1

\* the string of the address a.b.c.d
S(a, b, c, d) == << decimal(a), decimal(b), decimal(c), decimal(d) >>

Host(s, n) == [ip |-> s, name |-> n]

---------------------------------------------------------------------------
\* IPScope.nextfreeip

\* the addresses "for ip in self.netaddr" visits, in the order it visits them
addresses(net) ==
    [i \in 1..num_addresses(net) |-> net.network_address + i - 1]

\* the result of a loop that returns the first address it does not skip
first_of(candidates) ==
    IF candidates = << >> THEN None ELSE << Head(candidates) >>

\* nextfreeip without the test of the last octet
nextfreeip_no_skip(net, hs) ==
    LET allocated_ips == {ip_address(host.ip) : host \in hs}
        free(ip) == ip \notin allocated_ips
    IN  first_of(SelectSeq(addresses(net), free))

\* IPScope.nextfreeip: the first address of the network, in ascending order,
\* whose last octet does not print as '0' and that is not in allocated_ips;
\* None when the loop runs out
nextfreeip(net, hs) ==
    LET allocated_ips == {ip_address(host.ip) : host \in hs}
        free(ip) == /\ str_split(ip)[4] # << 0 >>
                    /\ ip \notin allocated_ips
    IN  first_of(SelectSeq(addresses(net), free))

---------------------------------------------------------------------------
\* IMC server: the IP scope endpoints (pyarubaimc.plat), by their contract

\* the server holds ip in the scope's bounds
in_bounds(detail, s) ==
    /\ ip_address(detail.startIp) <= ip_address(s)
    /\ ip_address(s) <= ip_address(detail.endIp)

\* add_scope_ip: the server takes a host in the scope's bounds that is free
add_scope_ip_accepts(detail, rh, s) ==
    /\ in_bounds(detail, s)
    /\ \A host \in rh : ip_address(host.ip) # ip_address(s)

add_scope_ip(rh, s, name) == rh \cup {Host(s, name)}

\* delete_host_from_segment: the server drops the host record of that address
delete_host_from_segment(rh, s) ==
    {host \in rh : ip_address(host.ip) # ip_address(s)}

\* add_child_ip_scope: the server takes a child range inside the parent's
add_child_ip_scope_accepts(detail, s, e) ==
    /\ in_bounds(detail, s) /\ in_bounds(detail, e)
    /\ ip_address(s) <= ip_address(e)

\* get_ip_scope_detail: 'assignedIpScope' is in the record when it has children
has_assignedIpScope(detail) == detail.assignedIpScope # {}

---------------------------------------------------------------------------
\* The scopes the model is run on

\* host records of the addresses from..to, all of one owner
Hosts(from, to, name) == {Host(str_split(ip), name) : ip \in from..to}

Addrs(from, to) == {str_split(ip) : ip \in from..to}

Names == {"n1", "n2"}

Scenarios ==
    LET n29 == [addr |-> S(10,0,0,0), prefixlen |-> 29]
        n30 == [addr |-> S(10,0,0,8), prefixlen |-> 30]
        n23 == [addr |-> S(10,0,0,0), prefixlen |-> 23]
        a(d) == ip_address(S(10,0,0,d))
        b(d) == ip_address(S(10,0,1,d))
    IN  { \* 10.0.0.0/29 with the usable range as bounds
          [net |-> n29, startIp |-> S(10,0,0,1), endIp |-> S(10,0,0,6),
           hosts |-> {}, children |-> {}, pool |-> Addrs(a(0), a(8))],
          [net |-> n29, startIp |-> S(10,0,0,1), endIp |-> S(10,0,0,6),
           hosts |-> Hosts(a(1), a(2), "n1"), children |-> {},
           pool |-> Addrs(a(2), a(4))],
          [net |-> n29, startIp |-> S(10,0,0,1), endIp |-> S(10,0,0,6),
           hosts |-> Hosts(a(1), a(6), "n1"), children |-> {},
           pool |-> Addrs(a(5), a(7))],
          \* 10.0.0.0/29 with the whole network as bounds
          [net |-> n29, startIp |-> S(10,0,0,0), endIp |-> S(10,0,0,7),
           hosts |-> Hosts(a(1), a(5), "n1"),
           children |-> {[startIp |-> S(10,0,0,1), endIp |-> S(10,0,0,2)]},
           pool |-> {S(10,0,0,0), S(10,0,0,5), S(10,0,0,6), S(10,0,0,7)}],
          \* 10.0.0.8/30: the network address does not end in .0
          [net |-> n30, startIp |-> S(10,0,0,9), endIp |-> S(10,0,0,10),
           hosts |-> {}, children |-> {}, pool |-> Addrs(a(8), a(12))],
          \* 10.0.0.0/23: 10.0.1.0 lies inside the usable range
          [net |-> n23, startIp |-> S(10,0,0,1), endIp |-> S(10,0,1,254),
           hosts |-> Hosts(a(1), a(254), "n1"), children |-> {},
           pool |-> Addrs(a(255), b(0))] }

---------------------------------------------------------------------------
\* IPScope

\* no IMCDev and no IMCInterface object is involved
scope_frame == UNCHANGED << dev_vars, if_vars >>

\* __init__ reading startip from the record's endIp
IPScope_init_swapped(n, detail, rh) ==
    [id |-> detail.id, hosts |-> rh, netaddr |-> ip_network(n),
     startip |-> detail.endIp, endip |-> detail.endIp,
     child |-> IF has_assignedIpScope(detail)
               THEN detail.assignedIpScope ELSE None]

\* IPScope.__init__(netaddr, auth, url): the fields of the new object
IPScope_init(n, detail, rh) ==
    [id |-> detail.id, hosts |-> rh, netaddr |-> ip_network(n),
     startip |-> detail.startIp, endip |-> detail.endIp,
     child |-> IF has_assignedIpScope(detail)
               THEN detail.assignedIpScope ELSE None]

ScopeInit ==
    \E sc \in Scenarios :
        /\ rscope = [id |-> 1, startIp |-> sc.startIp, endIp |-> sc.endIp,
                     assignedIpScope |-> sc.children]
        /\ rhosts = sc.hosts
        /\ pool = sc.pool
        /\ LET self == IPScope_init(sc.net, rscope, rhosts)
           IN  /\ id = self.id
               /\ netaddr = self.netaddr
               /\ startip = self.startip
               /\ endip = self.endip
               /\ hosts = self.hosts
               /\ child = self.child
        /\ last_op = "__init__"
        /\ ret = None
        /\ outcome = "ok"
        /\ last_request = "get_ip_scope_detail"
        /\ acked = {}
        /\ nwrites = 0

\* allocate_ip re-reading the hosts after the call
allocate_ip_refreshing(hostipaddress, name, description) ==
    /\ nwrites < MaxWrites
    /\ nwrites' = nwrites + 1
    /\ IF add_scope_ip_accepts(rscope, rhosts, hostipaddress)
       THEN /\ rhosts' = add_scope_ip(rhosts, hostipaddress, name)
            /\ acked' = acked \cup {Host(hostipaddress, name)}
            /\ outcome' = "ok"
       ELSE /\ UNCHANGED << rhosts, acked >>
            /\ outcome' = "RemoteError"
    /\ hosts' = rhosts'
    /\ last_op' = "allocate_ip"
    /\ ret' = None
    /\ UNCHANGED << rscope, id, netaddr, startip, endip, child, pool >>
    /\ last_request' = "get_ip_scope_hosts"
    /\ scope_frame

\* IPScope.allocate_ip
allocate_ip(hostipaddress, name, description) ==
    /\ nwrites < MaxWrites
    /\ nwrites' = nwrites + 1
    /\ IF add_scope_ip_accepts(rscope, rhosts, hostipaddress)
       THEN /\ rhosts' = add_scope_ip(rhosts, hostipaddress, name)
            /\ acked' = acked \cup {Host(hostipaddress, name)}
            /\ outcome' = "ok"
       ELSE /\ UNCHANGED << rhosts, acked >>
            /\ outcome' = "RemoteError"
    /\ last_op' = "allocate_ip"
    /\ ret' = None
    /\ UNCHANGED << rscope, id, netaddr, startip, endip, hosts, child, pool >>
    /\ last_request' = "add_scope_ip"
    /\ scope_frame

\* IPScope.deallocate_ip
deallocate_ip(hostipaddress) ==
    /\ nwrites < MaxWrites
    /\ nwrites' = nwrites + 1
    /\ rhosts' = delete_host_from_segment(rhosts, hostipaddress)
    /\ acked' = {host \in acked : host.ip # hostipaddress}
    /\ outcome' = IF rhosts' # rhosts THEN "ok" ELSE "RemoteError"
    /\ last_op' = "deallocate_ip"
    /\ ret' = None
    /\ UNCHANGED << rscope, id, netaddr, startip, endip, hosts, child, pool >>
    /\ last_request' = "delete_host_from_segment"
    /\ scope_frame

\* IPScope.gethosts
gethosts ==
    /\ hosts' = rhosts
    /\ last_op' = "gethosts"
    /\ ret' = None
    /\ outcome' = "ok"
    /\ UNCHANGED << rscope, rhosts, id, netaddr, startip, endip, child, pool,
                    acked, nwrites >>
    /\ last_request' = "get_ip_scope_hosts"
    /\ scope_frame

\* nextfreeip re-reading the hosts before the search
nextfreeip_call_refreshing ==
    /\ hosts' = rhosts
    /\ ret' = nextfreeip(netaddr, hosts')
    /\ last_op' = "nextfreeip"
    /\ outcome' = "ok"
    /\ UNCHANGED << rscope, rhosts, id, netaddr, startip, endip, child, pool,
                    acked, nwrites >>
    /\ last_request' = "get_ip_scope_hosts"
    /\ scope_frame

\* a call of IPScope.nextfreeip
nextfreeip_call ==
    /\ ret' = nextfreeip(netaddr, hosts)
    /\ last_op' = "nextfreeip"
    /\ outcome' = "ok"
    /\ UNCHANGED << rscope, rhosts, id, netaddr, startip, endip, hosts, child,
                    pool, acked, nwrites >>
    /\ UNCHANGED last_request
    /\ scope_frame

\* IPScope.addchild
addchild(s, e, name, description) ==
    /\ nwrites < MaxWrites
    /\ nwrites' = nwrites + 1
    /\ IF add_child_ip_scope_accepts(rscope, s, e)
       THEN /\ rscope' = [rscope EXCEPT !.assignedIpScope =
                              @ \cup {[startIp |-> s, endIp |-> e]}]
            /\ outcome' = "ok"
       ELSE /\ UNCHANGED rscope
            /\ outcome' = "RemoteError"
    /\ last_op' = "addchild"
    /\ ret' = None
    /\ UNCHANGED << rhosts, id, netaddr, startip, endip, hosts, child, pool,
                    acked >>
    /\ last_request' = "add_child_ip_scope"
    /\ scope_frame

\* another client of the server allocates a free address of the scope
ExtAllocate(s) ==
    /\ nwrites < MaxWrites
    /\ add_scope_ip_accepts(rscope, rhosts, s)
    /\ nwrites' = nwrites + 1
    /\ rhosts' = add_scope_ip(rhosts, s, "ext")
    /\ UNCHANGED << rscope, id, netaddr, startip, endip, hosts, child, pool,
                    last_op, ret, outcome, acked >>
    /\ UNCHANGED last_request
    /\ scope_frame

\* another client of the server deallocates an address of the scope
ExtDeallocate(s) ==
    /\ nwrites < MaxWrites
    /\ \E host \in rhosts : host.ip = s
    /\ nwrites' = nwrites + 1
    /\ rhosts' = delete_host_from_segment(rhosts, s)
    /\ acked' = {host \in acked : host.ip # s}
    /\ UNCHANGED << rscope, id, netaddr, startip, endip, hosts, child, pool,
                    last_op, ret, outcome >>
    /\ UNCHANGED last_request
    /\ scope_frame

---------------------------------------------------------------------------
\* IMC server: the managed device and its VLANs (pyarubaimc.plat.device)

\* the management IPs of the devices the server manages
ManagedIPs == {"10.101.0.221"}

\* the ip_address arguments callers pass to IMCDev
DevIPs == {"10.101.0.221", "10.101.0.99"}

MinVlanId == 1
MaxVlanId == 4094

VlanIds == {10, 4094, 4095}
VlanNames == {"sales", "eng"}

Vlan(v, n) == [vlanId |-> v, vlanName |-> n]

\* create_dev_vlan: the server takes a valid VLAN id the device does not have
create_dev_vlan_accepts(rv, vlanid) ==
    /\ MinVlanId <= vlanid /\ vlanid <= MaxVlanId
    /\ \A vlan \in rv : vlan.vlanId # vlanid

create_dev_vlan(rv, vlanid, vlan_name) == rv \cup {Vlan(vlanid, vlan_name)}

\* delete_dev_vlans: the server drops that VLAN of the device
delete_dev_vlans(rv, vlanid) == {vlan \in rv : vlan.vlanId # vlanid}

---------------------------------------------------------------------------
\* IMCDev

\* no IPScope and no IMCInterface object is involved
dev_frame == UNCHANGED << scope_vars, if_vars >>

\* the read calls of IMCDev.__init__, in order, with the attributes each
\* one's result is assigned to
Reads ==
    << [call |-> "get_dev_details",
        attrs |-> {"dev_details", "ip", "description", "location", "contact",
                   "type", "name", "status", "devid"}],
       [call |-> "get_all_interface_details",
        attrs |-> {"interfacelist", "numinterface"}],
       [call |-> "get_dev_vlans", attrs |-> {"vlans"}],
       [call |-> "get_device_access_interfaces",
        attrs |-> {"accessinterfaces"}],
       [call |-> "get_trunk_interfaces", attrs |-> {"trunkinterfaces"}],
       [call |-> "get_dev_alarms", attrs |-> {"alarm", "numalarm"}],
       [call |-> "get_dev_asset_details", attrs |-> {"assets", "serials"}],
       [call |-> "get_dev_latest_run_config", attrs |-> {"runconfig"}],
       [call |-> "get_dev_latest_start_config", attrs |-> {"startconfig"}],
       [call |-> "get_ip_mac_arp_list", attrs |-> {"ipmacarp"}] >>

\* the attributes set from the constructor's arguments
ArgAttrs == {"auth", "url"}

\* every attribute of a constructed IMCDev
DevAttrs == ArgAttrs \cup UNION {Reads[k].attrs : k \in 1..Len(Reads)}

DevInit ==
    /\ rvlans \in {{}, {Vlan(10, "sales")}}
    /\ dev_pc = 0
    /\ dev_attrs = {}
    /\ dev_ip = ""
    /\ vlans = {}
    /\ dev_ref = FALSE
    /\ dev_error = "none"
    /\ vadded = {}
    /\ dev_writes = 0

\* __init__ presetting dev_details before the lookup
IMCDev_new_prefilled(dev_address) ==
    /\ dev_pc = 0 /\ ~dev_ref
    /\ dev_pc' = 1
    /\ dev_ip' = dev_address
    /\ dev_attrs' = ArgAttrs \cup {"dev_details"}
    /\ dev_error' = "none"
    /\ vlans' = {}
    /\ UNCHANGED << rvlans, dev_ref, vadded, dev_writes >>
    /\ dev_frame

\* IMCDev.__init__, lines 83-84: a new object, auth and url assigned
IMCDev_new(dev_address) ==
    /\ dev_pc = 0 /\ ~dev_ref
    /\ dev_pc' = 1
    /\ dev_ip' = dev_address
    /\ dev_attrs' = ArgAttrs
    /\ dev_error' = "none"
    /\ vlans' = {}
    /\ UNCHANGED << rvlans, dev_ref, vadded, dev_writes >>
    /\ dev_frame

\* IMCDev.__init__, lines 85-106: the next read call returns and its result
\* is assigned; after the last one the constructor returns the object
IMCDev_read_returns ==
    /\ dev_pc \in 1..Len(Reads)
    /\ Reads[dev_pc].call = "get_dev_details" => dev_ip \in ManagedIPs
    /\ dev_attrs' = dev_attrs \cup Reads[dev_pc].attrs
    /\ vlans' = IF Reads[dev_pc].call = "get_dev_vlans" THEN rvlans ELSE vlans
    /\ IF dev_pc = Len(Reads)
       THEN dev_pc' = 0 /\ dev_ref' = TRUE
       ELSE dev_pc' = dev_pc + 1 /\ UNCHANGED dev_ref
    /\ UNCHANGED << rvlans, dev_ip, dev_error, vadded, dev_writes >>
    /\ dev_frame

\* __init__ catching a failed read call and going on to the next
IMCDev_read_error_swallowed ==
    /\ dev_pc \in 1..Len(Reads)
    /\ dev_error' =
           IF Reads[dev_pc].call = "get_dev_details" /\ dev_ip \notin ManagedIPs
           THEN "NotFound" ELSE "RemoteError"
    /\ IF dev_pc = Len(Reads)
       THEN dev_pc' = 0 /\ dev_ref' = TRUE
       ELSE dev_pc' = dev_pc + 1 /\ UNCHANGED dev_ref
    /\ UNCHANGED << rvlans, dev_attrs, dev_ip, vlans, vadded, dev_writes >>
    /\ dev_frame

\* IMCDev.__init__, lines 85-106: the next read call fails; nothing in the
\* constructor catches the error, so it leaves the constructor and the
\* caller gets no object
IMCDev_read_raises ==
    /\ dev_pc \in 1..Len(Reads)
    /\ dev_error' =
           IF Reads[dev_pc].call = "get_dev_details" /\ dev_ip \notin ManagedIPs
           THEN "NotFound" ELSE "RemoteError"
    /\ dev_pc' = 0
    /\ dev_ref' = FALSE
    /\ UNCHANGED << rvlans, dev_attrs, dev_ip, vlans, vadded, dev_writes >>
    /\ dev_frame

\* IMCDev.getvlans
getvlans ==
    /\ dev_ref
    /\ vlans' = rvlans
    /\ UNCHANGED << rvlans, dev_pc, dev_attrs, dev_ip, dev_ref, dev_error,
                    vadded, dev_writes >>
    /\ dev_frame

\* addvlan re-reading the VLANs after the call
addvlan_refreshing(vlanid, vlan_name) ==
    /\ dev_ref
    /\ dev_writes < MaxWrites
    /\ dev_writes' = dev_writes + 1
    /\ IF create_dev_vlan_accepts(rvlans, vlanid)
       THEN /\ rvlans' = create_dev_vlan(rvlans, vlanid, vlan_name)
            /\ vadded' = vadded \cup {Vlan(vlanid, vlan_name)}
       ELSE UNCHANGED << rvlans, vadded >>
    /\ vlans' = rvlans'
    /\ UNCHANGED << dev_pc, dev_attrs, dev_ip, dev_ref, dev_error >>
    /\ dev_frame

\* IMCDev.addvlan
addvlan(vlanid, vlan_name) ==
    /\ dev_ref
    /\ dev_writes < MaxWrites
    /\ dev_writes' = dev_writes + 1
    /\ IF create_dev_vlan_accepts(rvlans, vlanid)
       THEN /\ rvlans' = create_dev_vlan(rvlans, vlanid, vlan_name)
            /\ vadded' = vadded \cup {Vlan(vlanid, vlan_name)}
       ELSE UNCHANGED << rvlans, vadded >>
    /\ UNCHANGED << dev_pc, dev_attrs, dev_ip, vlans, dev_ref, dev_error >>
    /\ dev_frame

\* IMCDev.delvlan
delvlan(vlanid) ==
    /\ dev_ref
    /\ dev_writes < MaxWrites
    /\ dev_writes' = dev_writes + 1
    /\ rvlans' = delete_dev_vlans(rvlans, vlanid)
    /\ vadded' = delete_dev_vlans(vadded, vlanid)
    /\ UNCHANGED << dev_pc, dev_attrs, dev_ip, vlans, dev_ref, dev_error >>
    /\ dev_frame

\* another client of the server creates or deletes a VLAN of the device
ExtVlan(vlanid) ==
    /\ dev_writes < MaxWrites
    /\ dev_writes' = dev_writes + 1
    /\ IF create_dev_vlan_accepts(rvlans, vlanid)
       THEN /\ rvlans' = create_dev_vlan(rvlans, vlanid, "ext")
            /\ UNCHANGED vadded
       ELSE /\ rvlans' = delete_dev_vlans(rvlans, vlanid)
            /\ vadded' = delete_dev_vlans(vadded, vlanid)
    /\ UNCHANGED << dev_pc, dev_attrs, dev_ip, vlans, dev_ref, dev_error >>
    /\ dev_frame

---------------------------------------------------------------------------
\* IMCInterface

\* no IPScope and no IMCDev object is involved
if_frame == UNCHANGED << scope_vars, dev_vars >>

IfIndexes == {1, 2, 3}

AdminStatus == {"Up", "Down"}

IfInit ==
    /\ radmin \in [IfIndexes -> AdminStatus]
    /\ ifIndex \in IfIndexes
    /\ adminstatus = radmin[ifIndex]
    /\ if_pc = "idle"
    /\ if_set = "none"
    /\ if_ext = FALSE
    /\ if_done = FALSE

\* IMCInterface.down, line 184: set_interface_down
down_set ==
    /\ if_pc = "idle"
    /\ radmin' = [radmin EXCEPT ![ifIndex] = "Down"]
    /\ if_pc' = "down"
    /\ if_set' = "Down"
    /\ if_ext' = FALSE
    /\ if_done' = FALSE
    /\ UNCHANGED << ifIndex, adminstatus >>
    /\ if_frame

\* down returning without the re-read
down_read_skipped ==
    /\ if_pc = "down"
    /\ if_pc' = "idle"
    /\ if_done' = TRUE
    /\ UNCHANGED << radmin, ifIndex, adminstatus, if_set, if_ext >>
    /\ if_frame

\* IMCInterface.down, lines 185-186: get_interface_details, adminstatus
\* overwritten
down_read ==
    /\ if_pc = "down"
    /\ adminstatus' = radmin[ifIndex]
    /\ if_pc' = "idle"
    /\ if_done' = TRUE
    /\ UNCHANGED << radmin, ifIndex, if_set, if_ext >>
    /\ if_frame

\* IMCInterface.up, line 194: set_interface_up
up_set ==
    /\ if_pc = "idle"
    /\ radmin' = [radmin EXCEPT ![ifIndex] = "Up"]
    /\ if_pc' = "up"
    /\ if_set' = "Up"
    /\ if_ext' = FALSE
    /\ if_done' = FALSE
    /\ UNCHANGED << ifIndex, adminstatus >>
    /\ if_frame

\* IMCInterface.up, lines 195-196: get_interface_details, adminstatus
\* overwritten
up_read ==
    /\ if_pc = "up"
    /\ adminstatus' = radmin[ifIndex]
    /\ if_pc' = "idle"
    /\ if_done' = TRUE
    /\ UNCHANGED << radmin, ifIndex, if_set, if_ext >>
    /\ if_frame

\* another client of the server changes an interface's administrative state
ExtSetAdmin(i, st) ==
    /\ radmin[i] # st
    /\ radmin' = [radmin EXCEPT ![i] = st]
    /\ if_ext' = (if_ext \/ (i = ifIndex /\ if_pc # "idle"))
    /\ UNCHANGED << if_pc, ifIndex, adminstatus, if_set, if_done >>
    /\ if_frame

---------------------------------------------------------------------------
\* Specifications: one per object; the other objects do not exist

NoScope ==
    /\ rscope = None /\ rhosts = {} /\ id = 0 /\ netaddr = None
    /\ startip = None /\ endip = None /\ hosts = {} /\ child = None
    /\ pool = {} /\ last_op = "" /\ ret = None /\ outcome = ""
    /\ last_request = "" /\ acked = {}
    /\ nwrites = 0

NoDev ==
    /\ rvlans = {} /\ dev_pc = 0 /\ dev_attrs = {} /\ dev_ip = ""
    /\ vlans = {} /\ dev_ref = FALSE /\ dev_error = "none" /\ vadded = {}
    /\ dev_writes = 0

NoIf ==
    /\ radmin = None /\ if_pc = "" /\ ifIndex = 0 /\ adminstatus = ""
    /\ if_set = "" /\ if_ext = FALSE /\ if_done = FALSE

\* the IPScope object
Init == ScopeInit /\ NoDev /\ NoIf

Next ==
    \/ \E s \in pool, name \in Names : allocate_ip(s, name, "d")
    \/ \E s \in pool : deallocate_ip(s)
    \/ gethosts
    \/ nextfreeip_call
    \/ \E s \in {rscope.startIp, str_split(netaddr.network_address)} :
           addchild(s, rscope.endIp, "c", "d")
    \/ \E s \in pool : ExtAllocate(s)
    \/ \E s \in pool : ExtDeallocate(s)

Spec == Init /\ [][Next]_vars

\* the IMCDev object
DevStart == DevInit /\ NoScope /\ NoIf

DevNext ==
    \/ \E dev_address \in DevIPs : IMCDev_new(dev_address)
    \/ IMCDev_read_returns
    \/ IMCDev_read_raises
    \/ getvlans
    \/ \E v \in VlanIds, n \in VlanNames : addvlan(v, n)
    \/ \E v \in VlanIds : delvlan(v)
    \/ \E v \in VlanIds : ExtVlan(v)

DevSpec == DevStart /\ [][DevNext]_vars

\* the IMCInterface object
IfStart == IfInit /\ NoScope /\ NoDev

IfNext ==
    \/ down_set
    \/ down_read
    \/ up_set
    \/ up_read
    \/ \E i \in IfIndexes, st \in AdminStatus : ExtSetAdmin(i, st)

IfSpec == IfStart /\ [][IfNext]_vars

---------------------------------------------------------------------------
\* Properties of IPScope (under Spec)

\* usable(N): the host addresses of a network, without its network address
\* and its broadcast address (a /31 or /32 has neither)
usable(net) ==
    IF net.prefixlen >= 31
    THEN net.network_address..broadcast_address(net)
    ELSE (net.network_address + 1)..(broadcast_address(net) - 1)

\* the parsed addresses of the cached hosts snapshot
snapshot == {ip_address(host.ip) : host \in hosts}

\* the unallocated addresses of usable(N) whose last octet is not 0
offerable == {ip \in usable(netaddr) \ snapshot : ip % 256 # 0}

\* nextfreeip has just returned an address
returned_address == last_op = "nextfreeip" /\ ret # None

\* C1: for a snapshot H that is a subset of usable(N) and holds no address
\* ending in .0, an address nextfreeip returns lies in usable(N) \ H and is
\* the smallest unallocated address of usable(N) whose last octet is not 0.
C1_ReturnsSmallestUsableFree ==
    ( /\ returned_address
      /\ snapshot \subseteq usable(netaddr)
      /\ \A ip \in snapshot : ip % 256 # 0 )
    => /\ ret[1] \in offerable
       /\ \A ip \in offerable : ret[1] <= ip

\* C2: when the snapshot covers every usable address of the network whose
\* last octet is not 0, nextfreeip returns the empty result.
C2_ExhaustedReturnsNone ==
    (last_op = "nextfreeip" /\ offerable = {}) => ret = None

\* C3: whatever the snapshot, nextfreeip never returns an address that
\* equals the parsed ip of a record of the snapshot, and never an address
\* whose last octet is 0.
C3_NeverAllocatedNeverZero ==
    returned_address => /\ ret[1] \notin snapshot
                        /\ ret[1] % 256 # 0

\* C3 happens: nextfreeip returned an address after passing over a free
\* address inside the network that ends in .0
C3_Witness ==
    /\ returned_address
    /\ \E ip \in usable(netaddr) \ snapshot : ip % 256 = 0 /\ ip < ret[1]

\* C5: allocate_ip leaves the hosts field as it was; a gethosts that follows
\* an accepted allocate_ip(ip, name, description), with no deallocation of ip
\* on the server in between, leaves a record with that ip and that name in
\* the hosts field.
C5_AllocateThenGethosts ==
    [][ /\ (\E s \in pool, name \in Names : allocate_ip(s, name, "d"))
            => hosts' = hosts
        /\ gethosts => acked \subseteq hosts' ]_vars

\* C5 happens: gethosts ran after an accepted allocate_ip and the record is
\* in the hosts field
C5_Witness ==
    /\ last_op = "gethosts"
    /\ acked # {}
    /\ acked \subseteq hosts

\* C9: nextfreeip calls no endpoint and changes no field of the object and
\* nothing on the server; what it returns is decided by netaddr and the
\* cached hosts.
C9_NextfreeipReadOnly ==
    [][ nextfreeip_call =>
            /\ UNCHANGED << id, netaddr, startip, endip, hosts, child >>
            /\ UNCHANGED << rscope, rhosts, nwrites, last_request >>
            /\ ret' = nextfreeip(netaddr, hosts) ]_vars

\* C9 happens: nextfreeip returned an address that another client had
\* already allocated on the server
C9_Witness ==
    /\ returned_address
    /\ \E host \in rhosts : host.name = "ext" /\ ip_address(host.ip) = ret[1]

\* C10: every host IP of the hosts field lies between startip and endip.
C10_HostsWithinBounds ==
    \A host \in hosts :
        /\ ip_address(startip) <= ip_address(host.ip)
        /\ ip_address(host.ip) <= ip_address(endip)

\* C10 happens: the server turned an allocate_ip down, the object itself
\* having checked nothing, and the hosts field holds what gethosts read
\* after an earlier accepted allocate_ip
C10_Witness ==
    /\ last_op = "allocate_ip" /\ outcome = "RemoteError"
    /\ acked # {} /\ acked \subseteq hosts

---------------------------------------------------------------------------
\* Properties of IMCDev (under DevSpec)

\* C4: addvlan leaves the vlans field as it was; a getvlans that follows an
\* accepted addvlan(v, name), with no deletion of v on the server in between,
\* leaves an entry for VLAN v in the vlans field.
C4_AddvlanThenGetvlans ==
    [][ /\ (\E v \in VlanIds, n \in VlanNames : addvlan(v, n))
            => vlans' = vlans
        /\ getvlans =>
               \A added \in vadded :
                   \E vlan \in vlans' : vlan.vlanId = added.vlanId ]_vars

\* C4 happens: the vlans field holds the VLAN an accepted addvlan created
C4_Witness ==
    /\ dev_ref
    /\ \E added \in vadded : added.vlanName = "eng" /\ added \in vlans

\* C6 as stated: a constructor that fails with NotFound has assigned no
\* attribute.
C6_NotFoundBeforeAnyAttribute ==
    dev_error = "NotFound" => dev_attrs = {}

\* C6 amended: a constructor that fails with NotFound has assigned auth and
\* url, from its arguments, and no attribute read from the server.
C6_NotFoundBeforeAnyServerAttribute ==
    dev_error = "NotFound" => dev_attrs = ArgAttrs

\* C6 happens: construction for an unmanaged IP has failed
C6_Witness ==
    /\ dev_error = "NotFound"
    /\ dev_ip \notin ManagedIPs
    /\ dev_pc = 0

\* C7: the caller holds an IMCDev only with every attribute assigned, and
\* holds none when a read call of the constructor failed.
C7_AllOrNothing ==
    /\ dev_ref => dev_attrs = DevAttrs
    /\ dev_error # "none" => ~dev_ref

\* C7 happens: a read call failed after earlier ones had been assigned
C7_Witness ==
    /\ dev_error = "RemoteError"
    /\ "vlans" \in dev_attrs
    /\ dev_attrs # DevAttrs
    /\ ~dev_ref

---------------------------------------------------------------------------
\* Properties of IMCInterface (under IfSpec)

\* C8: when down() or up() has returned and no other client changed the
\* interface between its two steps, adminstatus is the state the call set.
C8_StatusIsWhatWasSet ==
    (if_done /\ ~if_ext) => adminstatus = if_set

\* C8 happens: another client changed the interface between the two steps
\* and adminstatus differs from the state the call set
C8_Witness ==
    /\ if_done /\ if_ext
    /\ adminstatus # if_set

=============================================================================
